---- MODULE Spec2Model ----
(***************************************************************************)
(* Model of the Nginx log watcher (src/watcher.py): class AlertWatcher.    *)
(* One watcher object processes log lines strictly one after the other.    *)
(* The state is the object's fields; the clock `now` stands for the        *)
(* readings of time.time().  Time passes between two lines (the tail loop  *)
(* sleeps) and while send_slack_alert runs (the webhook post blocks).      *)
(***************************************************************************)
EXTENDS Integers, Sequences, FiniteSets, TLC

\* ------------------------------------------------------------------ bounds
MaxWindow == 2          \* largest WINDOW_SIZE tried
MaxCooldown == 2        \* largest ALERT_COOLDOWN_SEC tried
TimeHorizon == 2        \* seconds of clock modelled after start
MaxRequests == 3        \* cap on total_requests
MaxSendDelay == 1       \* longest time one send_slack_alert call takes
MaxChars == 6           \* longest upstream_status string tried

\* The clock at start.  time.time() is seconds since 1970, far larger than any
\* cooldown tried here, so the start time is not below the largest cooldown.
StartTime == MaxCooldown
MaxTime == StartTime + TimeHorizon

\* --------------------------------------------------------- program constants
MinimumRequests == 50   \* check_error_rate: minimum_requests
ErrorFloor == 500       \* status >= 500 counts as an error
UpstreamErrorStatus == 502  \* what an upstream error is tracked as
AbsentStatus == 0       \* log_entry.get("status", 0)

\* A JSON value that is not a number (a string, null, a list ...): as a
\* status it is appended verbatim; as an upstream token int() raises ValueError.
NonInt == -1

Pools == {"blue", "green", "red"}
NoPool == ""            \* log_entry.get("pool", "")
Thresholds == {50}
Cooldowns == {0, MaxCooldown}

\* The lines read from the log.  A parsed line is its three fields; upstream is
\* the upstream_status string split on ", ", each token an integer or NonInt.
\* shape tells what json.loads returned: "record" is an object whose
\* upstream_status is a string.
Record(status, pool, upstream) ==
    [ read |-> TRUE, json |-> TRUE, shape |-> "record", status |-> status,
      pool |-> pool, upstream |-> upstream ]
\* A line that is not JSON, and readline() returning no line.
NotJson == [ read |-> TRUE, json |-> FALSE, shape |-> "none", status |-> AbsentStatus,
             pool |-> NoPool, upstream |-> <<>> ]
NoLine == [ read |-> FALSE, json |-> FALSE, shape |-> "none", status |-> AbsentStatus,
            pool |-> NoPool, upstream |-> <<>> ]
\* A line that is JSON but no object (a number, a string, a list, null):
\* log_entry.get raises AttributeError.
NotObject == [ read |-> TRUE, json |-> TRUE, shape |-> "not_object",
               status |-> AbsentStatus, pool |-> NoPool, upstream |-> <<>> ]
\* An object whose upstream_status is a number, not a string: its .split raises
\* AttributeError.
UpstreamNotText ==
    [ read |-> TRUE, json |-> TRUE, shape |-> "upstream_not_text",
      status |-> UpstreamErrorStatus, pool |-> "green", upstream |-> <<>> ]
Lines ==
    { Record(200, pl, <<>>) : pl \in Pools \cup {NoPool} }
    \cup { Record(500, pl, <<>>) : pl \in {NoPool, "blue", "green"} }
    \cup { Record(NonInt, NoPool, <<>>), Record(AbsentStatus, NoPool, <<>>) }
    \cup { Record(200, NoPool, up) :
               up \in { <<502, 200>>, <<NonInt, 503>>, <<200, NonInt>> } }

\* How a send_slack_alert call of the line goes: how long it takes and
\* whether the webhook accepts the post.
Deliveries == { <<0, TRUE>>, <<MaxSendDelay, TRUE>>, <<0, FALSE>> }

VARIABLES
    \* configuration (watcher.py:22-27)
    slack_webhook_url,      \* TRUE iff SLACK_WEBHOOK_URL is set
    initial_pool,
    error_rate_threshold,
    window_size,
    alert_cooldown_sec,
    maintenance_mode,
    \* state tracking (watcher.py:30-39)
    last_pool,
    request_window,
    last_failover_alert,
    last_error_rate_alert,
    last_recovery_alert,
    system_degraded,
    total_requests,
    failover_count,
    \* environment and observation
    now,                    \* the clock: the latest reading of time.time()
    line,                   \* the line handed to process_log_line last
    alerts,                 \* the send_slack_alert calls of the last line, in order
    trace,                  \* what detect_failover / check_error_rate decided on it
    fired_at,               \* per cooldown key: the times at which its alerts fired so far
    twin                    \* the same watcher started with the other maintenance_mode

vars == << slack_webhook_url, initial_pool, error_rate_threshold, window_size,
           alert_cooldown_sec, maintenance_mode, last_pool, request_window,
           last_failover_alert, last_error_rate_alert, last_recovery_alert,
           system_degraded, total_requests, failover_count,
           now, line, alerts, trace, fired_at, twin >>

\* The watcher object's mutable fields as one record.
Self ==
    [ maintenance_mode |-> maintenance_mode,
      last_pool |-> last_pool,
      request_window |-> request_window,
      last_failover_alert |-> last_failover_alert,
      last_error_rate_alert |-> last_error_rate_alert,
      last_recovery_alert |-> last_recovery_alert,
      system_degraded |-> system_degraded,
      total_requests |-> total_requests,
      failover_count |-> failover_count ]

NoTrace ==
    [ pool_event |-> "none", pool_cooled |-> FALSE, pool_result |-> FALSE,
      err_event |-> "not_run", err_cooled |-> FALSE, err_result |-> FALSE,
      err_clock |-> 0, maintenance_at_start |-> FALSE ]
CooldownKeys == {"failover", "error_rate", "recovery"}

\* ------------------------------------------------------------ pure helpers
RECURSIVE error_count(_)
error_count(window) ==
    IF window = <<>> THEN 0
    ELSE (IF Head(window) >= ErrorFloor THEN 1 ELSE 0) + error_count(Tail(window))

\* `status >= 500` raises TypeError on a value that is not a number.
Comparable(window) == \A i \in 1..Len(window) : window[i] # NonInt

\* error_rate > threshold, with error_rate = (error_count / total) * 100
RateOver(window) ==
    /\ Len(window) > 0
    /\ error_count(window) * 100 > error_rate_threshold * Len(window)

\* (mutant) the cooldown one second short
check_cooldown_short(current_time, last_alert_time) ==
    current_time - last_alert_time >= alert_cooldown_sec - 1

check_cooldown(current_time, last_alert_time) ==
    current_time - last_alert_time >= alert_cooldown_sec

\* (mutant) the maintenance check left out
send_slack_alert_ignores_maintenance(s, post_ok) ==
    IF ~slack_webhook_url THEN "console"
    ELSE IF post_ok THEN "posted"
    ELSE "post_failed"

\* Where send_slack_alert puts the alert.
send_slack_alert(s, post_ok) ==
    IF s.maintenance_mode THEN "suppressed"
    ELSE IF ~slack_webhook_url THEN "console"
    ELSE IF post_ok THEN "posted"
    ELSE "post_failed"

Alert(kind, s, t, post_ok) ==
    [ kind |-> kind, sink |-> send_slack_alert(s, post_ok), at |-> t ]

\* ---------------------------------------------------------- detect_failover
\* s: the fields before the call; t: the clock at the call; d: how long a send
\* takes.  Result: the fields after, the clock after, the alerts sent, and what
\* was detected (event), whether its cooldown was satisfied, the return value.
PoolOutcome(s, t, sent, event, cooled, result) ==
    [ s |-> s, t |-> t, alerts |-> sent, event |-> event, cooled |-> cooled,
      result |-> result ]

\* (mutant) the recovery timestamp left alone while in maintenance mode
detect_recovery_unstamped_in_maintenance(s, pool, t, d, post_ok) ==
    LET s1 == [s EXCEPT !.last_pool = pool, !.failover_count = @ + 1]
    IN  IF ~check_cooldown(t, s.last_recovery_alert)
        THEN PoolOutcome(s1, t, <<>>, "recovery", FALSE, FALSE)
        ELSE LET s2 == [s1 EXCEPT !.maintenance_mode = FALSE]
                 a == Alert("pool_recovery", s2, t, post_ok)
             IN  PoolOutcome(IF s.maintenance_mode THEN s2
                             ELSE [s2 EXCEPT !.last_recovery_alert = t + d],
                             t + d, <<a>>, "recovery", TRUE, TRUE)

\* (mutant) the recovery gated by the failover timestamp: one timer for both
detect_recovery_gated_by_failover_timer(s, pool, t, d, post_ok) ==
    LET s1 == [s EXCEPT !.last_pool = pool, !.failover_count = @ + 1]
    IN  IF ~check_cooldown(t, s.last_failover_alert)
        THEN PoolOutcome(s1, t, <<>>, "recovery", FALSE, FALSE)
        ELSE LET s2 == [s1 EXCEPT !.maintenance_mode = FALSE]
                 a == Alert("pool_recovery", s2, t, post_ok)
             IN  PoolOutcome([s2 EXCEPT !.last_failover_alert = t + d],
                             t + d, <<a>>, "recovery", TRUE, TRUE)

\* (mutant) the pool recovery stamps a timestamp of its own
detect_recovery_stamps_own_key(s, pool, t, d, post_ok) ==
    LET s1 == [s EXCEPT !.last_pool = pool, !.failover_count = @ + 1]
    IN  IF ~check_cooldown(t, s.last_recovery_alert)
        THEN PoolOutcome(s1, t, <<>>, "recovery", FALSE, FALSE)
        ELSE LET s2 == [s1 EXCEPT !.maintenance_mode = FALSE]
                 a == Alert("pool_recovery", s2, t, post_ok)
             IN  PoolOutcome(s2, t + d, <<a>>, "recovery", TRUE, TRUE)

detect_recovery(s, pool, t, d, post_ok) ==
    LET s1 == [s EXCEPT !.last_pool = pool, !.failover_count = @ + 1]
    IN  IF ~check_cooldown(t, s.last_recovery_alert)
        THEN PoolOutcome(s1, t, <<>>, "recovery", FALSE, FALSE)
        ELSE LET s2 == [s1 EXCEPT !.maintenance_mode = FALSE]
                 a == Alert("pool_recovery", s2, t, post_ok)
             IN  PoolOutcome([s2 EXCEPT !.last_recovery_alert = t + d],
                             t + d, <<a>>, "recovery", TRUE, TRUE)

\* (mutant) a failover inside the cooldown is dropped, not recorded
detect_switch_drops_suppressed(s, pool, t, d, post_ok) ==
    LET s1 == [s EXCEPT !.last_pool = pool, !.failover_count = @ + 1]
    IN  IF ~check_cooldown(t, s.last_failover_alert)
        THEN PoolOutcome(s, t, <<>>, "failover", FALSE, FALSE)
        ELSE LET a == Alert("failover", s1, t, post_ok)
             IN  PoolOutcome([s1 EXCEPT !.last_failover_alert = t + d],
                             t + d, <<a>>, "failover", TRUE, TRUE)

\* (mutant) the failover timestamp set before the cooldown is checked
detect_switch_stamps_suppressed(s, pool, t, d, post_ok) ==
    LET s1 == [s EXCEPT !.last_pool = pool, !.failover_count = @ + 1,
                        !.last_failover_alert = t]
    IN  IF ~check_cooldown(t, s.last_failover_alert)
        THEN PoolOutcome(s1, t, <<>>, "failover", FALSE, FALSE)
        ELSE LET a == Alert("failover", s1, t, post_ok)
             IN  PoolOutcome([s1 EXCEPT !.last_failover_alert = t + d],
                             t + d, <<a>>, "failover", TRUE, TRUE)

\* (mutant) a pool change found inside its cooldown is not counted
detect_switch_counts_alerts_only(s, pool, t, d, post_ok) ==
    LET s1 == [s EXCEPT !.last_pool = pool]
    IN  IF ~check_cooldown(t, s.last_failover_alert)
        THEN PoolOutcome(s1, t, <<>>, "failover", FALSE, FALSE)
        ELSE LET s2 == [s1 EXCEPT !.failover_count = @ + 1]
                 a == Alert("failover", s2, t, post_ok)
             IN  PoolOutcome([s2 EXCEPT !.last_failover_alert = t + d],
                             t + d, <<a>>, "failover", TRUE, TRUE)

\* (mutant) the failover cooldown is stamped only when the delivery succeeded
detect_switch_unstamped_on_failure(s, pool, t, d, post_ok) ==
    LET s1 == [s EXCEPT !.last_pool = pool, !.failover_count = @ + 1]
    IN  IF ~check_cooldown(t, s.last_failover_alert)
        THEN PoolOutcome(s1, t, <<>>, "failover", FALSE, FALSE)
        ELSE LET a == Alert("failover", s1, t, post_ok)
             IN  PoolOutcome(IF post_ok THEN [s1 EXCEPT !.last_failover_alert = t + d]
                                        ELSE s1,
                             t + d, <<a>>, "failover", TRUE, TRUE)

detect_switch(s, pool, t, d, post_ok) ==
    LET s1 == [s EXCEPT !.last_pool = pool, !.failover_count = @ + 1]
    IN  IF ~check_cooldown(t, s.last_failover_alert)
        THEN PoolOutcome(s1, t, <<>>, "failover", FALSE, FALSE)
        ELSE LET a == Alert("failover", s1, t, post_ok)
             IN  PoolOutcome([s1 EXCEPT !.last_failover_alert = t + d],
                             t + d, <<a>>, "failover", TRUE, TRUE)

\* (mutant) the return to the initial pool is not looked at first
detect_failover_no_priority(s, pool, t, d, post_ok) ==
    IF pool = NoPool THEN PoolOutcome(s, t, <<>>, "none", FALSE, FALSE)
    ELSE IF pool = s.last_pool THEN PoolOutcome(s, t, <<>>, "none", FALSE, FALSE)
    ELSE detect_switch(s, pool, t, d, post_ok)

detect_failover(s, pool, t, d, post_ok) ==
    IF pool = NoPool THEN PoolOutcome(s, t, <<>>, "none", FALSE, FALSE)
    ELSE IF pool = initial_pool /\ s.last_pool # initial_pool
         THEN detect_recovery(s, pool, t, d, post_ok)
    ELSE IF pool = s.last_pool THEN PoolOutcome(s, t, <<>>, "none", FALSE, FALSE)
    ELSE detect_switch(s, pool, t, d, post_ok)

\* --------------------------------------------------------- check_error_rate
\* (mutant) the minimum sample count forgotten for small windows
minimum_requests_ungated == IF window_size < MinimumRequests THEN 0
                            ELSE MinimumRequests

minimum_requests == IF window_size < MinimumRequests THEN window_size
                    ELSE MinimumRequests

ErrOutcome(s, t, sent, event, cooled, result) ==
    [ s |-> s, t |-> t, alerts |-> sent, event |-> event, cooled |-> cooled,
      result |-> result ]

\* (mutant) the error-rate cooldown not checked
error_rate_high_no_cooldown(s, t, d, post_ok) ==
    LET s1 == [s EXCEPT !.last_error_rate_alert = t, !.system_degraded = TRUE]
        a == Alert("high_error_rate", s1, t, post_ok)
    IN  ErrOutcome(s1, t + d, <<a>>, "over", TRUE, TRUE)

\* (mutant) the system is marked degraded before the cooldown is checked
error_rate_high_degrades_unalerted(s, t, d, post_ok) ==
    IF ~check_cooldown(t, s.last_error_rate_alert)
    THEN ErrOutcome([s EXCEPT !.system_degraded = TRUE], t, <<>>, "over", FALSE, FALSE)
    ELSE LET s1 == [s EXCEPT !.last_error_rate_alert = t, !.system_degraded = TRUE]
             a == Alert("high_error_rate", s1, t, post_ok)
         IN  ErrOutcome(s1, t + d, <<a>>, "over", TRUE, TRUE)

error_rate_high(s, t, d, post_ok) ==
    IF ~check_cooldown(t, s.last_error_rate_alert)
    THEN ErrOutcome(s, t, <<>>, "over", FALSE, FALSE)
    ELSE LET s1 == [s EXCEPT !.last_error_rate_alert = t, !.system_degraded = TRUE]
             a == Alert("high_error_rate", s1, t, post_ok)
         IN  ErrOutcome(s1, t + d, <<a>>, "over", TRUE, TRUE)

\* (mutant) maintenance mode not cleared on an error-rate recovery
error_rate_recovered_keeps_maintenance(s, t, d, post_ok) ==
    IF ~check_cooldown(t, s.last_recovery_alert)
    THEN ErrOutcome(s, t, <<>>, "recovering", FALSE, FALSE)
    ELSE LET s1 == [s EXCEPT !.system_degraded = FALSE]
             a == Alert("error_recovery", s1, t, post_ok)
         IN  ErrOutcome([s1 EXCEPT !.last_recovery_alert = t + d],
                        t + d, <<a>>, "recovering", TRUE, TRUE)

\* (mutant) a recovery found inside its cooldown starts the cooldown again
error_rate_recovered_restarts_cooldown(s, t, d, post_ok) ==
    IF ~check_cooldown(t, s.last_recovery_alert)
    THEN ErrOutcome([s EXCEPT !.last_recovery_alert = t], t, <<>>, "recovering",
                    FALSE, FALSE)
    ELSE LET s1 == [s EXCEPT !.system_degraded = FALSE, !.maintenance_mode = FALSE]
             a == Alert("error_recovery", s1, t, post_ok)
         IN  ErrOutcome([s1 EXCEPT !.last_recovery_alert = t + d],
                        t + d, <<a>>, "recovering", TRUE, TRUE)

error_rate_recovered(s, t, d, post_ok) ==
    IF ~check_cooldown(t, s.last_recovery_alert)
    THEN ErrOutcome(s, t, <<>>, "recovering", FALSE, FALSE)
    ELSE LET s1 == [s EXCEPT !.system_degraded = FALSE, !.maintenance_mode = FALSE]
             a == Alert("error_recovery", s1, t, post_ok)
         IN  ErrOutcome([s1 EXCEPT !.last_recovery_alert = t + d],
                        t + d, <<a>>, "recovering", TRUE, TRUE)

check_error_rate(s, t, d, post_ok) ==
    IF Len(s.request_window) < minimum_requests
    THEN ErrOutcome(s, t, <<>>, "below_min", FALSE, FALSE)
    ELSE IF ~Comparable(s.request_window)
         \* calculate_error_rate raises TypeError before anything is changed
         THEN ErrOutcome(s, t, <<>>, "raised", FALSE, FALSE)
    ELSE IF RateOver(s.request_window) THEN error_rate_high(s, t, d, post_ok)
    ELSE IF s.system_degraded THEN error_rate_recovered(s, t, d, post_ok)
    ELSE ErrOutcome(s, t, <<>>, "healthy", FALSE, FALSE)

\* --------------------------------------------------------- process_log_line
\* The loop over the upstream_status tokens: int() of a token that is no
\* integer raises ValueError, which is passed over.
\* The upstream_status string as its characters, and Python's reading of it.
Chars == {"5", "0", ",", " ", "x"}
Digits == {"5", "0"}
Texts == UNION { [1..n -> Chars] : n \in 0..MaxChars }

\* str.split(", ")
RECURSIVE split(_)
split(text) ==
    LET cuts == { i \in 1..(Len(text) - 1) : text[i] = "," /\ text[i + 1] = " " }
    IN  IF cuts = {} THEN << text >>
        ELSE LET i == CHOOSE c \in cuts : \A c2 \in cuts : c <= c2
             IN  << SubSeq(text, 1, i - 1) >> \o split(SubSeq(text, i + 2, Len(text)))

\* str.strip()
strip(token) ==
    LET inked == { i \in 1..Len(token) : token[i] # " " }
    IN  IF inked = {} THEN << >>
        ELSE SubSeq(token, CHOOSE a \in inked : \A b \in inked : a <= b,
                           CHOOSE a \in inked : \A b \in inked : a >= b)

\* int(): the decimal value, or NonInt where it raises ValueError
RECURSIVE decimal(_)
decimal(token) ==
    IF token = << >> THEN 0
    ELSE 10 * decimal(SubSeq(token, 1, Len(token) - 1))
            + (IF token[Len(token)] = "5" THEN 5 ELSE 0)
to_int(token) ==
    IF token = << >> \/ \E i \in 1..Len(token) : token[i] \notin Digits
    THEN NonInt ELSE decimal(token)

\* The tokens of one upstream_status string, each as int(us.strip()) reads it.
parse_upstream(text) ==
    IF text = << >> THEN << >>
    ELSE LET tokens == split(text)
         IN  [ i \in 1..Len(tokens) |-> to_int(strip(tokens[i])) ]

\* (mutant) a token that does not parse ends the loop
RECURSIVE has_upstream_error_stops_at_bad_token(_)
has_upstream_error_stops_at_bad_token(upstream) ==
    IF upstream = <<>> THEN FALSE
    ELSE IF Head(upstream) = NonInt THEN FALSE
    ELSE IF Head(upstream) >= ErrorFloor THEN TRUE
    ELSE has_upstream_error_stops_at_bad_token(Tail(upstream))

RECURSIVE has_upstream_error(_)
has_upstream_error(upstream) ==
    IF upstream = <<>> THEN FALSE
    ELSE IF Head(upstream) # NonInt /\ Head(upstream) >= ErrorFloor THEN TRUE
    ELSE has_upstream_error(Tail(upstream))

effective_status(ln) ==
    IF has_upstream_error(ln.upstream) THEN UpstreamErrorStatus ELSE ln.status

\* (mutant) request_window[:window_size]
first_n(window, n) == SubSeq(window, 1, n)

\* request_window[-window_size:]
last_n(window, n) == SubSeq(window, Len(window) - n + 1, Len(window))

push_window(window, status) ==
    LET appended == Append(window, status)
    IN  IF Len(appended) > window_size THEN last_n(appended, window_size)
        ELSE appended

\* s: the fields before; ln: the line; t: the clock when the line is read;
\* d: how long each send takes; post_ok: whether the webhook accepts a post.
\* (mutant) the request is counted before the fields are read
process_log_line_counts_first(s, ln, t, d, post_ok) ==
    IF ~ln.json
    THEN [ s |-> s, t |-> t, alerts |-> <<>>, trace |-> NoTrace ]
    ELSE [ s |-> [s EXCEPT !.total_requests = @ + 1], t |-> t, alerts |-> <<>>,
           trace |-> NoTrace ]

process_log_line(s, ln, t, d, post_ok) ==
    IF ~ln.json \/ ln.shape = "not_object"
    \* JSONDecodeError is passed over; the AttributeError of .get is logged
    THEN [ s |-> s, t |-> t, alerts |-> <<>>, trace |-> NoTrace ]
    ELSE IF ln.shape = "upstream_not_text"
    \* the AttributeError of .split comes after total_requests += 1
    THEN [ s |-> [s EXCEPT !.total_requests = @ + 1], t |-> t, alerts |-> <<>>,
           trace |-> NoTrace ]
    ELSE
    LET s1 == [s EXCEPT !.total_requests = @ + 1,
                        !.request_window = push_window(@, effective_status(ln))]
        p  == IF ln.pool # NoPool THEN detect_failover(s1, ln.pool, t, d, post_ok)
              ELSE PoolOutcome(s1, t, <<>>, "none", FALSE, FALSE)
        e  == check_error_rate(p.s, p.t, d, post_ok)
    IN  [ s |-> e.s, t |-> e.t, alerts |-> p.alerts \o e.alerts,
          trace |-> [ pool_event |-> p.event, pool_cooled |-> p.cooled,
                      pool_result |-> p.result,
                      err_event |-> e.event, err_cooled |-> e.cooled,
                      err_result |-> e.result, err_clock |-> p.t,
                      maintenance_at_start |-> s.maintenance_mode ] ]

\* ------------------------------------------------------------ observation
KeyOf(kind) ==
    IF kind = "failover" THEN "failover"
    ELSE IF kind = "high_error_rate" THEN "error_rate"
    ELSE "recovery"

RECURSIVE note_fired(_, _)
note_fired(f, sent) ==
    IF sent = <<>> THEN f
    ELSE note_fired([f EXCEPT ![KeyOf(Head(sent).kind)] = @ \cup {Head(sent).at}], Tail(sent))

\* ------------------------------------------------------------------- Init
\* __init__: the configuration from the environment, then the fields.
Init ==
    /\ slack_webhook_url \in BOOLEAN
    /\ initial_pool = "blue"
    /\ error_rate_threshold \in Thresholds
    /\ window_size \in 1..MaxWindow
    /\ alert_cooldown_sec \in Cooldowns
    /\ maintenance_mode \in BOOLEAN
    /\ last_pool = initial_pool
    /\ request_window = <<>>
    /\ last_failover_alert = 0
    /\ last_error_rate_alert = 0
    /\ last_recovery_alert = 0
    /\ system_degraded = FALSE
    /\ total_requests = 0
    /\ failover_count = 0
    /\ now = StartTime
    /\ line = NoLine
    /\ alerts = <<>>
    /\ trace = NoTrace
    /\ fired_at = [k \in CooldownKeys |-> {}]
    /\ twin = [Self EXCEPT !.maintenance_mode = ~maintenance_mode]

ConfigUnchanged ==
    UNCHANGED << slack_webhook_url, initial_pool, error_rate_threshold,
                 window_size, alert_cooldown_sec >>

\* ----------------------------------------------------------------- actions
\* tail_log_file hands one line to process_log_line.  The twin handles the same
\* line with the same clock readings (the same t and d).
Handle(ln, d, post_ok) ==
    \E r \in { process_log_line(Self, ln, now, d, post_ok) },
       r2 \in { process_log_line(twin, ln, now, d, post_ok) } :
        /\ maintenance_mode' = r.s.maintenance_mode
        /\ last_pool' = r.s.last_pool
        /\ request_window' = r.s.request_window
        /\ last_failover_alert' = r.s.last_failover_alert
        /\ last_error_rate_alert' = r.s.last_error_rate_alert
        /\ last_recovery_alert' = r.s.last_recovery_alert
        /\ system_degraded' = r.s.system_degraded
        /\ total_requests' = r.s.total_requests
        /\ failover_count' = r.s.failover_count
        /\ now' = r.t
        /\ line' = ln
        /\ alerts' = r.alerts
        /\ trace' = r.trace
        /\ fired_at' = note_fired(fired_at, r.alerts)
        /\ twin' = r2.s
        /\ ConfigUnchanged

\* A line that parses as a JSON object.
ProcessRecord ==
    /\ total_requests < MaxRequests
    /\ \E ln \in Lines, dl \in Deliveries :
          /\ now + 2 * dl[1] <= MaxTime
          /\ Handle(ln, dl[1], dl[2])

\* A line that is not JSON: json.loads raises JSONDecodeError, which is passed over.
SkipLine ==
    /\ line # NotJson
    /\ Handle(NotJson, 0, TRUE)

\* readline() returns no line: the tail loop sleeps and time passes.
Tick ==
    /\ now < MaxTime
    /\ now' = now + 1
    /\ line' = NoLine
    /\ alerts' = <<>>
    /\ trace' = NoTrace
    /\ UNCHANGED << maintenance_mode, last_pool, request_window,
                    last_failover_alert, last_error_rate_alert,
                    last_recovery_alert, system_degraded, total_requests,
                    failover_count, fired_at, twin >>
    /\ ConfigUnchanged

Next == ProcessRecord \/ SkipLine \/ Tick

Spec == Init /\ [][Next]_vars

\* =================================================================== claims
\* A step in which process_log_line handled a parsed record.
\* A JSON line that is no object: the generic except logs the AttributeError.
SkipNonObject ==
    /\ line # NotObject
    /\ Handle(NotObject, 0, TRUE)

\* An object whose upstream_status is no string: counted, then given up.
AbandonRecord ==
    /\ total_requests < MaxRequests
    /\ Handle(UpstreamNotText, 0, TRUE)

\* The log also carries lines that are JSON and no record.
NextMalformed == Next \/ SkipNonObject \/ AbandonRecord

SpecMalformed == Init /\ [][NextMalformed]_vars

\* One record whose upstream_status is any short string, read by a fresh engine.
InitText == Init /\ ~slack_webhook_url /\ ~maintenance_mode /\ alert_cooldown_sec = 0

ProcessText ==
    /\ total_requests = 0
    /\ \E status \in {200, ErrorFloor, NonInt}, text \in Texts :
          Handle(Record(status, NoPool, parse_upstream(text)), 0, TRUE)

SpecText == InitText /\ [][ProcessText]_vars

\* The watcher running without end.  check_cooldown reads the clock and a
\* timestamp only through their difference, and every difference of MaxCooldown
\* or more passes every cooldown, so the clock is kept at StartTime and the
\* passing of time moves the three timestamps back instead, no further than 0.
\* total_requests and failover_count, which only appear in messages, are kept
\* as none or some.
Aged(stamp, elapsed) == IF stamp < elapsed THEN 0 ELSE stamp - elapsed
Capped(count) == IF count > 0 THEN 1 ELSE 0

LiveLines == { Record(200, pl, <<>>) : pl \in {NoPool, "blue", "green"} }
             \cup { Record(500, NoPool, <<>>) }

LiveHandle(ln, d, post_ok) ==
    \E r \in { process_log_line(Self, ln, now, d, post_ok) } :
        /\ maintenance_mode' = r.s.maintenance_mode
        /\ last_pool' = r.s.last_pool
        /\ request_window' = r.s.request_window
        /\ last_failover_alert' = Aged(r.s.last_failover_alert, r.t - now)
        /\ last_error_rate_alert' = Aged(r.s.last_error_rate_alert, r.t - now)
        /\ last_recovery_alert' = Aged(r.s.last_recovery_alert, r.t - now)
        /\ system_degraded' = r.s.system_degraded
        /\ total_requests' = Capped(r.s.total_requests)
        /\ failover_count' = Capped(r.s.failover_count)
        /\ line' = ln
        /\ alerts' = r.alerts
        /\ trace' = r.trace
        /\ UNCHANGED << now, fired_at, twin >>
        /\ ConfigUnchanged

LiveRecord ==
    \E ln \in LiveLines, dl \in Deliveries : LiveHandle(ln, dl[1], dl[2])

LiveTick ==
    /\ last_failover_alert' = Aged(last_failover_alert, 1)
    /\ last_error_rate_alert' = Aged(last_error_rate_alert, 1)
    /\ last_recovery_alert' = Aged(last_recovery_alert, 1)
    /\ line' = NoLine
    /\ alerts' = <<>>
    /\ trace' = NoTrace
    /\ UNCHANGED << maintenance_mode, last_pool, request_window, system_degraded,
                    total_requests, failover_count, now, fired_at, twin >>
    /\ ConfigUnchanged

\* A webhook is set and the cooldown is not zero.
InitLive == Init /\ slack_webhook_url /\ alert_cooldown_sec = MaxCooldown

NextLive == LiveRecord \/ LiveTick

\* Records keep arriving and time keeps passing.
SpecLive == InitLive /\ [][NextLive]_vars /\ WF_vars(LiveRecord) /\ WF_vars(LiveTick)

\* The watcher started while time.time() reads less than alert_cooldown_sec:
\* a clock still near the epoch, or a cooldown longer than the epoch time.
InitEarlyClock ==
    /\ slack_webhook_url \in BOOLEAN
    /\ initial_pool = "blue"
    /\ error_rate_threshold \in Thresholds
    /\ window_size \in 1..MaxWindow
    /\ alert_cooldown_sec \in Cooldowns
    /\ maintenance_mode \in BOOLEAN
    /\ last_pool = initial_pool
    /\ request_window = <<>>
    /\ last_failover_alert = 0
    /\ last_error_rate_alert = 0
    /\ last_recovery_alert = 0
    /\ system_degraded = FALSE
    /\ total_requests = 0
    /\ failover_count = 0
    /\ now \in 0..(StartTime - 1)
    /\ line = NoLine
    /\ alerts = <<>>
    /\ trace = NoTrace
    /\ fired_at = [k \in CooldownKeys |-> {}]
    /\ twin = [Self EXCEPT !.maintenance_mode = ~maintenance_mode]

SpecEarlyClock == InitEarlyClock /\ [][Next]_vars

Processed == total_requests' = total_requests + 1

Fired(sent, kind) == \E i \in 1..Len(sent) : sent[i].kind = kind
HowMany(sent, kind) == Cardinality({ i \in 1..Len(sent) : sent[i].kind = kind })
RecoveryKinds == {"pool_recovery", "error_recovery"}
PostMade(a) == a.sink \in {"posted", "post_failed"}

\* C1 as stated: when maintenance_mode is true as a record starts, no alert of
\* that record is handed to the webhook.
C1_NoPostWhenStartedInMaintenance ==
    [][ (Processed /\ maintenance_mode)
            => \A i \in 1..Len(alerts') : ~PostMade(alerts'[i]) ]_vars

\* C1 (amended): when maintenance_mode is true as a record starts, every alert
\* sent before the record's first recovery alert is suppressed; a recovery that
\* passes its cooldown clears maintenance_mode before it sends, so the recovery
\* alert and every alert after it in the record is not suppressed (it is posted
\* when a webhook URL is set, printed otherwise) and maintenance_mode is false
\* afterwards.
C1_SuppressedUntilRecoveryClears ==
    [][ (Processed /\ maintenance_mode)
            => \A i \in 1..Len(alerts') :
                  LET cleared == \E j \in 1..i : alerts'[j].kind \in RecoveryKinds
                  IN  /\ ~cleared => alerts'[i].sink = "suppressed"
                      /\ cleared =>
                            /\ ~maintenance_mode'
                            /\ alerts'[i].sink # "suppressed"
                            /\ slack_webhook_url => PostMade(alerts'[i]) ]_vars

\* A pool recovery that started in maintenance mode and was posted.
C1_Witness ==
    /\ trace.maintenance_at_start
    /\ \E i \in 1..Len(alerts) :
          alerts[i].kind = "pool_recovery" /\ alerts[i].sink = "posted"

\* C2: a record whose pool label is non-empty and differs from last_pool sets
\* last_pool to it and adds one to failover_count, also when the cooldown of
\* its kind is not satisfied; then no pool alert is sent and detect_failover
\* returns False.  A failover within alert_cooldown_sec of an earlier failover
\* alert sends no second failover alert.
C2_PoolChangeRecordedEvenIfSuppressed ==
    [][ (Processed /\ line'.pool # NoPool /\ line'.pool # last_pool)
            => LET stamp == IF line'.pool = initial_pool THEN last_recovery_alert
                            ELSE last_failover_alert
               IN  /\ last_pool' = line'.pool
                   /\ failover_count' = failover_count + 1
                   /\ now - stamp < alert_cooldown_sec
                        => /\ ~Fired(alerts', "failover")
                           /\ ~Fired(alerts', "pool_recovery")
                           /\ ~trace'.pool_result
                   /\ (/\ line'.pool # initial_pool
                       /\ \E a \in fired_at["failover"] : now - a < alert_cooldown_sec)
                        => ~Fired(alerts', "failover") ]_vars

\* Two failovers, the first alerted, the second suppressed by the cooldown.
C2_Witness ==
    /\ trace.pool_event = "failover" /\ ~trace.pool_cooled
    /\ alerts = <<>>
    /\ failover_count = 2 /\ last_pool = "red"
    /\ Cardinality(fired_at["failover"]) = 1

\* C3: with last_pool # initial_pool, a record labelled initial_pool is handled
\* as a recovery: it is gated by the recovery timestamp, sends a Pool Recovery
\* alert exactly when that cooldown is satisfied, never a Failover alert, and
\* leaves last_failover_alert unchanged.
C3_ReturnToInitialIsRecovery ==
    [][ (Processed /\ last_pool # initial_pool /\ line'.pool = initial_pool)
            => /\ ~Fired(alerts', "failover")
               /\ last_failover_alert' = last_failover_alert
               /\ fired_at'["failover"] = fired_at["failover"]
               /\ Fired(alerts', "pool_recovery")
                    <=> now - last_recovery_alert >= alert_cooldown_sec
               /\ Fired(alerts', "pool_recovery") => last_recovery_alert' >= now
               /\ last_pool' = initial_pool ]_vars

\* A recovery alert after two other pools were visited.
C3_Witness ==
    /\ trace.pool_event = "recovery"
    /\ Fired(alerts, "pool_recovery")
    /\ last_pool = initial_pool
    /\ failover_count = 3

\* C4: the window never holds more than window_size entries, and each parsed
\* record leaves it equal to the last window_size entries of the old window
\* followed by the record's effective status.
C4_WindowIsLastOutcomes ==
    /\ [](Len(request_window) <= window_size /\ window_size >= 1)
    /\ [][ Processed
            => LET all == Append(request_window, effective_status(line'))
                   n == IF Len(all) < window_size THEN Len(all) ELSE window_size
               IN  /\ Len(request_window') = n
                   /\ \A i \in 1..n :
                         request_window'[i] = all[Len(all) - n + i] ]_vars

\* More records than the window holds, the oldest evicted, order kept.
C4_Witness ==
    /\ window_size = 2 /\ total_requests = 3
    /\ request_window = <<500, 200>>

\* The minimum sample count, the error rate against the threshold, and the
\* recovery timestamp, as check_error_rate finds them in a Processed step.
SampleMin == IF MinimumRequests <= window_size THEN MinimumRequests ELSE window_size
Evaluated == Len(request_window') >= SampleMin /\ Comparable(request_window')
OverThreshold == Evaluated /\ RateOver(request_window')
UnderThreshold == Evaluated /\ ~RateOver(request_window')
RecoveryStampAtCheck ==
    IF Fired(alerts', "pool_recovery") THEN trace'.err_clock ELSE last_recovery_alert

\* C5: with the minimum sample count reached and the rate over the threshold,
\* one High Error Rate alert fires when the error-rate cooldown is satisfied,
\* and none fires within alert_cooldown_sec of an earlier one; with the system
\* degraded, a record leaving the rate at or under the threshold with the
\* recovery cooldown satisfied fires exactly one error-rate recovery alert and
\* clears the degraded flag; with the flag clear and the rate at or under the
\* threshold no error-rate recovery alert fires.
C5_OneErrorAlertThenOneRecovery ==
    [][ Processed =>
          /\ (OverThreshold /\ trace'.err_clock - last_error_rate_alert >= alert_cooldown_sec)
                => /\ HowMany(alerts', "high_error_rate") = 1
                   /\ system_degraded'
          /\ (OverThreshold /\ \E a \in fired_at["error_rate"] :
                                   trace'.err_clock - a < alert_cooldown_sec)
                => /\ ~Fired(alerts', "high_error_rate")
                   /\ system_degraded' = system_degraded
          /\ OverThreshold => ~Fired(alerts', "error_recovery")
          /\ (UnderThreshold /\ system_degraded
                /\ trace'.err_clock - RecoveryStampAtCheck >= alert_cooldown_sec)
                => /\ HowMany(alerts', "error_recovery") = 1
                   /\ ~system_degraded'
          /\ (UnderThreshold /\ ~system_degraded)
                => /\ ~Fired(alerts', "error_recovery")
                   /\ ~system_degraded'
          /\ UnderThreshold => ~Fired(alerts', "high_error_rate") ]_vars

\* An error-rate recovery alert after a High Error Rate alert.
C5_Witness ==
    /\ Fired(alerts, "error_recovery")
    /\ fired_at["error_rate"] # {}
    /\ ~system_degraded

\* C6: while the window holds fewer than min(50, window_size) entries,
\* check_error_rate does nothing: no error-rate alert of either kind, the
\* degraded flag and last_error_rate_alert unchanged, False returned, and
\* maintenance_mode and last_recovery_alert changed by nothing but a pool
\* recovery of the same record.
C6_BelowMinimumIsNoOp ==
    [][ (Processed /\ Len(request_window') < SampleMin)
            => /\ ~Fired(alerts', "high_error_rate")
               /\ ~Fired(alerts', "error_recovery")
               /\ system_degraded' = system_degraded
               /\ last_error_rate_alert' = last_error_rate_alert
               /\ ~trace'.err_result
               /\ ~Fired(alerts', "pool_recovery")
                    => /\ maintenance_mode' = maintenance_mode
                       /\ last_recovery_alert' = last_recovery_alert
               /\ Fired(alerts', "pool_recovery")
                    => last_recovery_alert' = trace'.err_clock ]_vars

\* A window of errors only, still below the minimum sample count.
C6_Witness ==
    /\ window_size = 2
    /\ request_window = <<500>>
    /\ line.json
    /\ alerts = <<>>

\* C7: the watcher and its twin, started with opposite maintenance_mode and fed
\* the same lines and clock readings, agree on every field but maintenance_mode.
C7_MaintenanceDoesNotChangeState ==
    /\ twin.last_pool = last_pool
    /\ twin.failover_count = failover_count
    /\ twin.system_degraded = system_degraded
    /\ twin.request_window = request_window
    /\ twin.total_requests = total_requests
    /\ twin.last_failover_alert = last_failover_alert
    /\ twin.last_error_rate_alert = last_error_rate_alert
    /\ twin.last_recovery_alert = last_recovery_alert

\* The watcher in maintenance mode and the twin not, after a suppressed failover
\* alert and a suppressed High Error Rate alert.
C7_Witness ==
    /\ maintenance_mode /\ ~twin.maintenance_mode
    /\ last_failover_alert > 0 /\ last_error_rate_alert > 0
    /\ system_degraded
    /\ \E i \in 1..Len(alerts) : alerts[i].sink = "suppressed"

\* C8: maintenance_mode changes only from true to false and only in a step in
\* which a recovery alert fires, having passed the recovery cooldown; a step in
\* which a recovery alert fires leaves it false; failover and High Error Rate
\* alerts alone never change it.
C8_MaintenanceClearedOnlyByRecovery ==
    [][ /\ maintenance_mode' # maintenance_mode
            => /\ maintenance_mode /\ ~maintenance_mode'
               /\ Processed
               /\ \/ /\ Fired(alerts', "pool_recovery")
                     /\ now - last_recovery_alert >= alert_cooldown_sec
                  \/ /\ Fired(alerts', "error_recovery")
                     /\ trace'.err_clock - RecoveryStampAtCheck >= alert_cooldown_sec
        /\ (Processed /\ \E i \in 1..Len(alerts') : alerts'[i].kind \in RecoveryKinds)
            => ~maintenance_mode'
        /\ ~maintenance_mode => ~maintenance_mode' ]_vars

\* Maintenance mode cleared by an error-rate recovery.
C8_Witness ==
    /\ trace.maintenance_at_start /\ ~maintenance_mode
    /\ Fired(alerts, "error_recovery")
    /\ ~Fired(alerts, "pool_recovery")

\* C9: two alerts under the same cooldown key are at least alert_cooldown_sec
\* apart, whether fired for different records or for the same one.
C9_AlertsOfOneKeyCooldownApart ==
    [][ \A i \in 1..Len(alerts') :
          LET k == KeyOf(alerts'[i].kind)
          IN  /\ Processed
              /\ \A p \in fired_at[k] : alerts'[i].at - p >= alert_cooldown_sec
              /\ \A j \in 1..(i - 1) :
                    KeyOf(alerts'[j].kind) = k
                        => alerts'[i].at - alerts'[j].at >= alert_cooldown_sec ]_vars

\* Under a cooldown of more than zero, a key that fired twice.
C9_Witness ==
    /\ alert_cooldown_sec > 0
    /\ \E k \in CooldownKeys : Cardinality(fired_at[k]) >= 2

\* What a Processed step detects and finds inside its cooldown.
PoolChangeSuppressed ==
    /\ line'.pool # NoPool /\ line'.pool # last_pool
    /\ now - (IF line'.pool = initial_pool THEN last_recovery_alert
              ELSE last_failover_alert) < alert_cooldown_sec
ErrorEventSuppressed ==
    \/ OverThreshold /\ trace'.err_clock - last_error_rate_alert < alert_cooldown_sec
    \/ /\ UnderThreshold /\ system_degraded
       /\ trace'.err_clock - RecoveryStampAtCheck < alert_cooldown_sec
StampsUnchanged ==
    UNCHANGED << last_failover_alert, last_error_rate_alert, last_recovery_alert >>

\* C10 as stated: in every step in which some event is detected inside its
\* cooldown, all three timestamps are unchanged.
C10_SuppressedStepStampsNothing ==
    [][ (Processed /\ (PoolChangeSuppressed \/ ErrorEventSuppressed))
            => StampsUnchanged ]_vars

\* C10 (amended): a timestamp changes only in a step in which an alert of its
\* own key fires, so an event inside its cooldown stamps nothing; when no alert
\* fires for a record, suppressed events or not, all three are unchanged; and a
\* suppressed pool change leaves the timestamp that gated it unchanged.
C10_OnlyFiredAlertsStamp ==
    [][ /\ last_failover_alert' # last_failover_alert => Fired(alerts', "failover")
        /\ last_error_rate_alert' # last_error_rate_alert
            => Fired(alerts', "high_error_rate")
        /\ last_recovery_alert' # last_recovery_alert
            => \E i \in 1..Len(alerts') : alerts'[i].kind \in RecoveryKinds
        /\ (Processed /\ alerts' = <<>>) => StampsUnchanged
        /\ (Processed /\ PoolChangeSuppressed)
            => /\ ~Fired(alerts', "failover") /\ ~Fired(alerts', "pool_recovery")
               /\ IF line'.pool = initial_pool
                  THEN last_recovery_alert' = last_recovery_alert
                  ELSE last_failover_alert' = last_failover_alert
        /\ (Processed /\ OverThreshold
              /\ trace'.err_clock - last_error_rate_alert < alert_cooldown_sec)
            => last_error_rate_alert' = last_error_rate_alert ]_vars

\* A failover inside its cooldown, with the failover timestamp set earlier.
C10_Witness ==
    /\ trace.pool_event = "failover" /\ ~trace.pool_cooled
    /\ alert_cooldown_sec > 0
    /\ last_failover_alert > 0
    /\ now - last_failover_alert < alert_cooldown_sec

\* C11 as stated: a failover alert leaves last_recovery_alert unchanged, a pool
\* recovery alert leaves last_failover_alert unchanged, and the first return to
\* the initial pool after the first, alerted failover sends a Pool Recovery
\* alert however soon it comes.
C11_FlapAlertsBothWays ==
    [][ Processed =>
          /\ Fired(alerts', "failover") => last_recovery_alert' = last_recovery_alert
          /\ Fired(alerts', "pool_recovery") => last_failover_alert' = last_failover_alert
          /\ (/\ failover_count = 1 /\ last_pool # initial_pool
              /\ line'.pool = initial_pool
              /\ fired_at["failover"] # {})
                => Fired(alerts', "pool_recovery") ]_vars

\* C11 (amended): the two directions are gated by different timestamps.  A
\* failover alert changes last_recovery_alert in no way (it changes in the same
\* step only when an error-rate recovery alert fires), a pool recovery alert
\* leaves last_failover_alert unchanged, and a return to the initial pool within
\* alert_cooldown_sec of a failover alert sends its alert exactly when the
\* recovery timestamp's own cooldown is satisfied.
C11_TimersIndependent ==
    [][ Processed =>
          /\ (Fired(alerts', "failover") /\ ~Fired(alerts', "error_recovery"))
                => last_recovery_alert' = last_recovery_alert
          /\ Fired(alerts', "failover") => ~Fired(alerts', "pool_recovery")
          /\ Fired(alerts', "pool_recovery")
                => /\ last_failover_alert' = last_failover_alert
                   /\ fired_at'["failover"] = fired_at["failover"]
          /\ (/\ last_pool # initial_pool /\ line'.pool = initial_pool
              /\ \E a \in fired_at["failover"] : now - a < alert_cooldown_sec)
                => (Fired(alerts', "pool_recovery")
                        <=> now - last_recovery_alert >= alert_cooldown_sec) ]_vars

\* A Pool Recovery alert within the cooldown of a failover alert.
C11_Witness ==
    /\ alert_cooldown_sec > 0
    /\ Fired(alerts, "pool_recovery")
    /\ \E a \in fired_at["failover"] : now - a < alert_cooldown_sec

\* C12: both kinds of recovery alert read and set last_recovery_alert: a
\* recovery alert of either kind fires only alert_cooldown_sec or more after
\* every earlier recovery alert of either kind and sets last_recovery_alert to
\* no less than its own time; with alert_cooldown_sec > 0 one record never
\* sends both a pool recovery alert and an error-rate recovery alert.
C12_RecoveriesShareOneTimer ==
    [][ Processed =>
          /\ \A i \in 1..Len(alerts') :
                alerts'[i].kind \in RecoveryKinds
                    => /\ \A p \in fired_at["recovery"] :
                             alerts'[i].at - p >= alert_cooldown_sec
                       /\ last_recovery_alert' >= alerts'[i].at
                       /\ alerts'[i].at \in fired_at'["recovery"]
          /\ alert_cooldown_sec > 0
                => ~(Fired(alerts', "pool_recovery") /\ Fired(alerts', "error_recovery"))
          /\ (Fired(alerts', "pool_recovery") /\ Fired(alerts', "error_recovery"))
                => alerts'[Len(alerts')].at - alerts'[1].at >= alert_cooldown_sec ]_vars

\* A pool recovery alert that keeps the error-rate recovery of the same record
\* inside the cooldown.
C12_Witness ==
    /\ alert_cooldown_sec > 0
    /\ Fired(alerts, "pool_recovery")
    /\ trace.err_event = "recovering" /\ ~trace.err_cooled
    /\ system_degraded

\* C13: a delivery that fails changes nothing in the engine state: after every
\* processed record the nine state fields are what the same record, read at the
\* same clock with sends of the same duration, leaves when every delivery
\* succeeds, and an alert whose post failed has still stamped its cooldown key.
C13_DeliveryFailureLeavesStateAlone ==
    [][ Processed =>
          /\ \E d \in 0..MaxSendDelay :
                \E ok \in { process_log_line(Self, line', now, d, TRUE) } :
                    /\ ok.t = now'
                    /\ ok.s = Self'
                    /\ Len(ok.alerts) = Len(alerts')
                    /\ \A i \in 1..Len(alerts') : ok.alerts[i].kind = alerts'[i].kind
          /\ \A i \in 1..Len(alerts') :
                alerts'[i].sink = "post_failed"
                    => /\ alerts'[i].at \in fired_at'[KeyOf(alerts'[i].kind)]
                       /\ KeyOf(alerts'[i].kind) = "failover"
                             => last_failover_alert' >= alerts'[i].at
                       /\ KeyOf(alerts'[i].kind) = "error_rate"
                             => last_error_rate_alert' = alerts'[i].at
                       /\ KeyOf(alerts'[i].kind) = "recovery"
                             => last_recovery_alert' >= alerts'[i].at ]_vars

\* A failover alert whose post failed, with its cooldown consumed, followed by
\* nothing worse: the engine holds the state of a delivered alert.
C13_Witness ==
    /\ \E i \in 1..Len(alerts) :
          alerts[i].kind = "failover" /\ alerts[i].sink = "post_failed"
    /\ last_failover_alert = now
    /\ failover_count >= 1

\* C15: failover_count never decreases and goes up by exactly one in exactly
\* the steps that change last_pool, alert or no alert; a record with an empty
\* pool label or with the label last_pool already holds, a skipped line and the
\* passing of time leave it unchanged.
C15_FailoverCountCountsPoolChanges ==
    [][ /\ failover_count' >= failover_count
        /\ failover_count' = failover_count + (IF last_pool' # last_pool THEN 1 ELSE 0)
        /\ (last_pool' # last_pool) <=> (Processed /\ line'.pool \notin {NoPool, last_pool})
        /\ (Processed /\ line'.pool \in {NoPool, last_pool})
              => failover_count' = failover_count
        /\ ~Processed => failover_count' = failover_count ]_vars

\* Every record so far changed the pool, the last one without any alert.
C15_Witness ==
    /\ failover_count = MaxRequests
    /\ total_requests = MaxRequests
    /\ alerts = <<>>
    /\ trace.pool_event \in {"failover", "recovery"}

\* C20: system_degraded becomes true only in a step that fires a High Error
\* Rate alert and false only in a step that fires an error-rate recovery
\* alert; an error-rate recovery alert fires only when the system is degraded,
\* hence after a High Error Rate alert later than any earlier error-rate
\* recovery; an over-threshold evaluation inside the error-rate cooldown leaves
\* system_degraded unchanged.
C20_DegradedFollowsAlerts ==
    /\ [](system_degraded => fired_at["error_rate"] # {})
    /\ [][ /\ (~system_degraded /\ system_degraded') => Fired(alerts', "high_error_rate")
           /\ (system_degraded /\ ~system_degraded') => Fired(alerts', "error_recovery")
           /\ Fired(alerts', "error_recovery")
                 => /\ system_degraded /\ ~system_degraded'
                    /\ fired_at["error_rate"] # {}
           /\ Fired(alerts', "high_error_rate") => system_degraded'
           /\ (Processed /\ trace'.err_event = "over" /\ ~trace'.err_cooled)
                 => /\ system_degraded' = system_degraded
                    /\ ~Fired(alerts', "high_error_rate") ]_vars

\* Over the threshold again inside the error-rate cooldown after a recovery:
\* no alert, and the system stays not degraded.
C20_Witness ==
    /\ trace.err_event = "over" /\ ~trace.err_cooled
    /\ ~system_degraded
    /\ fired_at["recovery"] # {}
    /\ alerts = <<>>

\* C17 as stated: every element of request_window is an integer in every
\* reachable state, so a record whose status is absent or not an integer never
\* keeps check_error_rate from evaluating a window that holds the minimum
\* sample count.
C17_WindowHoldsIntegers ==
    /\ \A i \in 1..Len(request_window) : request_window[i] # NonInt
    /\ (line.json /\ Len(request_window) >= minimum_requests)
          => trace.err_event \notin {"raised", "below_min"}

\* C18 as stated: a cooldown key never stamped passes the cooldown check at
\* every current time: the first detected failover, the first detected pool
\* recovery, the first over-threshold evaluation and the first error-rate
\* recovery evaluation each fire their alert.
C18_FirstAlertsAlwaysFire ==
    [][ Processed =>
          /\ (trace'.pool_event = "failover" /\ fired_at["failover"] = {})
                => Fired(alerts', "failover")
          /\ (trace'.pool_event = "recovery" /\ fired_at["recovery"] = {})
                => Fired(alerts', "pool_recovery")
          /\ (trace'.err_event = "over" /\ fired_at["error_rate"] = {})
                => Fired(alerts', "high_error_rate")
          /\ (trace'.err_event = "recovering" /\ fired_at["recovery"] = {}
                /\ ~Fired(alerts', "pool_recovery"))
                => Fired(alerts', "error_recovery") ]_vars

\* C14: a line that is not JSON, or is JSON but no object, is skipped with the
\* whole engine state unchanged: total_requests, request_window, last_pool,
\* failover_count, system_degraded, maintenance_mode and the three timestamps
\* stay as they were, the clock is not read and no alert fires.
C14_UnparsedLineChangesNothing ==
    [][ (line'.read /\ (~line'.json \/ line'.shape = "not_object"))
          => /\ Self' = Self
             /\ now' = now
             /\ alerts' = <<>>
             /\ fired_at' = fired_at ]_vars

\* Both kinds of unparsable line met by an engine that is degraded.
C14_Witness ==
    /\ line = NotObject
    /\ system_degraded
    /\ total_requests >= 1
    /\ request_window # <<>>
    /\ last_error_rate_alert > 0

\* C16: the outcome pushed for a record is 502 when some token of its
\* upstream_status, split on ", ", parses as an integer of 500 or more, at any
\* position and after any tokens that do not parse, whatever the record's
\* status; otherwise it is the record's status.
C16_UpstreamErrorPushes502 ==
    [][ Processed =>
          /\ request_window' # <<>>
          /\ request_window'[Len(request_window')] =
                IF \E i \in 1..Len(line'.upstream) :
                       line'.upstream[i] # NonInt /\ line'.upstream[i] >= ErrorFloor
                THEN UpstreamErrorStatus ELSE line'.status ]_vars

\* "x, 500" on a 200 record: the token that does not parse is passed over and
\* the one after it makes the outcome 502.
C16_Witness ==
    /\ line.upstream = << NonInt, ErrorFloor >>
    /\ line.status = 200
    /\ request_window = << UpstreamErrorStatus >>

\* The window holds the minimum sample count and its error rate is at or under
\* the threshold.
UnderState ==
    /\ Len(request_window) >= minimum_requests
    /\ Comparable(request_window)
    /\ ~RateOver(request_window)

\* C19 as stated: whatever pool labels the records carry, the system does not
\* stay degraded for ever while every record leaves the window at or under the
\* threshold: an error-rate recovery alert fires and system_degraded becomes
\* false.
C19_RecoveryAlwaysRetried == []<>(~system_degraded \/ ~UnderState)

\* C19 (amended): the system does not stay degraded for ever while every
\* record leaves the window at or under the threshold, unless pool recovery
\* alerts keep firing: each of them restarts the cooldown the error-rate
\* recovery waits for.
C19_RetriedUnlessPoolRecoveriesKeepFiring ==
    []<>(~system_degraded \/ ~UnderState \/ Fired(alerts, "pool_recovery"))

\* A recovery held back by the cooldown a pool recovery alert of the same
\* record has just restarted.
C19_Witness ==
    /\ system_degraded /\ UnderState
    /\ alert_cooldown_sec > 0
    /\ line.pool = initial_pool
    /\ Fired(alerts, "pool_recovery")
    /\ trace.err_event = "recovering" /\ ~trace.err_cooled
    /\ last_recovery_alert = now

====
